---------------------------- MODULE Spec2Model ----------------------------
(***************************************************************************)
(* A model of ormspace's dependency-aware context cache:                   *)
(*   - the entity registry and the dependency closure (ormspace/model.py), *)
(*   - key addresses (ormspace/keys.py),                                   *)
(*   - the context cache and its population (ormspace/database.py).        *)
(* Strings that the code parses are sequences of one-character strings.    *)
(***************************************************************************)
EXTENDS Integers, Sequences, FiniteSets, TLC

(***************************************************************************)
(* Bounds of the model.                                                    *)
(***************************************************************************)
\* Number of reference fields declared in a drawn registry.
MaxFields == 3
\* Depth of nested recursive() frames the interpreter allows before it raises
\* RecursionError (CPython's limit is far larger; what matters is that it is finite).
RecursionLimit == 6
\* Length of the raw strings handed to the key parsers.
MaxLen == 4
\* Number of writes other clients make to the store during a behaviour.
MaxMutations == 1
\* Number of populate calls made during a behaviour.
MaxCalls == 2
\* Number of pieces a name handed to getmodel is made of.
MaxChunks == 4
\* Length of the EXIST_QUERY strings.
MaxQueryLen == 4
\* items in the result of one fetch
MaxItems == 3
\* pages the store serves for one query, and items in a page
MaxPages == 3
PageSize == 2
\* metadata fragments on one field
MaxFragments == 2

(***************************************************************************)
(* Universe.                                                               *)
(***************************************************************************)
Types == {"A", "B", "C"}
\* "Zed" names no registered model.
Names == Types \cup {"Zed"}
Kinds == {"Key", "TableKey"}
Keys == {"k1", "k2"}
\* Logical scopes (inbound requests) from which the cache is used.
Scopes == {"s1", "s2"}
\* Queries: None, the empty dict, a caller's filter, a declared FETCH_QUERY.
Queries == {"NoQuery", "EmptyQ", "Q1", "QF"}
\* Marks a model that is no key of the `queries` argument.
Absent == "Absent"
\* Python's None, where a model class is expected.
None == "None"
\* An optional string: None, or the string s.
Null == [null |-> TRUE, s |-> <<>>]
Str(s) == [null |-> FALSE, s |-> s]
\* Python truthiness of an optional string
Truthy(o) == ~o.null /\ o.s # <<>>

VARIABLES
    \* registry: reference fields (owner, kind, MetaInfo.tables entry) in declaration
    \* order, and the class attributes EXTRA_DEPENDENTS
    fieldDecls, EXTRA_DEPENDENTS,
    \* a call of Model.dependencies: the class it is called on and what it produced
    croot, cres,
    \* a key address: the raw value, whether the address was built, and the TableKey
    raw, kpc, tkey,
    \* the store: the keys of the items in each model's table, and how many writes
    \* other clients have made so far
    store, mutations,
    \* database.context: for each model's ContextVar, whether it was set in the
    \* module-level context and to which dict; lastWriter is the scope of the call
    \* that set it last
    context, lastWriter,
    \* the populate calls (update_dependencies_context) made so far
    calls, ncalls,
    \* the lookup made by the latest step, if it was one
    lastLookup,
    \* the Key built from the raw value
    bkey,
    \* the latest call of Model.exist and what it returned or raised
    existRes,
    \* the names of the classes registered by modelmap, a name handed to getmodel
    \* as text, and what getmodel returned or raised for it
    registered, gname, gres,
    \* an entity: the EXIST_QUERY of its class and its serialized form; and what
    \* its exist_query() returned
    EXIST_QUERY, asjson, equery,
    \* the reference field of an instance on which set_instance_dependencies ran,
    \* with how the call ended and the instance it set on the field
    resolved,
    \* the TableKey of ormspace/keybase.py built from the raw value, with how its
    \* construction ended
    kbkey,
    \* the items a fetch_all returned to set_context, and the dict set_context
    \* built from them
    fetched, indexed,
    \* the pages the store serves for the query of a fetch_all call, and the call:
    \* the data gathered, the marker of the last response and the markers sent
    pages, fa,
    \* the metadata class of a field's fragments, the arguments each fragment was
    \* declared with, in declaration order, and the merged metadata
    mclass, fragments, merged,
    \* the construction of an instance from a record of the cache: the class,
    \* the key of the record and how the construction ended
    built,
    \* the serialized data of an instance, as far as the key names of the classes
    \* go, and the latest call of its update_instance_context
    udata, uic,
    \* the latest call of save_new: the entity, what its existence check gave,
    \* the puts it issued and what it returned
    sv

vars == <<fieldDecls, EXTRA_DEPENDENTS, croot, cres, raw, kpc, tkey,
          store, mutations, context, lastWriter, calls, ncalls, lastLookup,
          bkey, existRes, registered, gname, gres, EXIST_QUERY, asjson, equery,
          resolved, kbkey, fetched, indexed, pages, fa,
          mclass, fragments, merged, built, udata, uic, sv>>

regVars == <<fieldDecls, EXTRA_DEPENDENTS>>
closureVars == <<croot, cres>>
keyVars == <<raw, kpc, tkey>>
storeVars == <<store, mutations>>
cacheVars == <<context, lastWriter, calls, ncalls, lastLookup>>
\* what the calls on keys, names and entities returned
nameVars == <<registered, gname, gres>>
queryVars == <<EXIST_QUERY, asjson, equery>>
\* what the calls on the library's other entry points returned
indexVars == <<fetched, indexed>>
pagingVars == <<pages, fa>>
metaVars == <<mclass, fragments, merged>>
refreshVars == <<udata, uic>>
libVars == <<kbkey, indexVars, pagingVars, metaVars, built, refreshVars, sv>>
\* the state of the populate calls, the key addresses, names and entities
coreVars == <<regVars, closureVars, keyVars, storeVars, cacheVars, bkey, existRes, nameVars,
              queryVars, resolved>>
callVars == <<bkey, existRes, nameVars, queryVars, resolved, libVars>>

RECURSIVE SeqsUpTo(_, _)
SeqsUpTo(S, n) ==
    IF n = 0 THEN {<<>>}
    ELSE LET shorter == SeqsUpTo(S, n - 1)
         IN  shorter \cup {Append(s, x) : s \in {t \in shorter : Len(t) = n - 1}, x \in S}

(***************************************************************************)
(* ormspace/functions.py                                                   *)
(***************************************************************************)
RECURSIVE filter_uniques_from(_, _, _)
filter_uniques_from(data, i, result) ==
    IF i > Len(data) THEN result
    ELSE filter_uniques_from(data, i + 1,
            IF \E j \in DOMAIN result : result[j] = data[i]
            THEN result ELSE Append(result, data[i]))

filter_uniques(data) == filter_uniques_from(data, 1, <<>>)

filter_not_none(data) == SelectSeq(data, LAMBDA i : i # None)

(***************************************************************************)
(* ormspace/model.py: registry and dependency closure                      *)
(***************************************************************************)
Upper == {"K", "X"}
Lower == {"k", "e", "y", "x"}

\* str.lower
lower(s) ==
    [i \in DOMAIN s |-> IF s[i] = "K" THEN "k" ELSE IF s[i] = "X" THEN "x" ELSE s[i]]

RECURSIVE replace_from(_, _, _, _)
\* s[i:].replace(old, new): every occurrence of old, from the left, not overlapping
replace_from(s, old, new, i) ==
    IF i > Len(s) THEN <<>>
    ELSE IF i + Len(old) - 1 <= Len(s) /\ SubSeq(s, i, i + Len(old) - 1) = old
         THEN new \o replace_from(s, old, new, i + Len(old))
         ELSE <<s[i]>> \o replace_from(s, old, new, i + 1)

\* str.replace
replace(s, old, new) == replace_from(s, old, new, 1)

RECURSIVE findall_from(_, _)
\* re.findall(r'[a-z][A-Z]|[A-Z][A-Z][a-z]', s[i:])
findall_from(s, i) ==
    IF i > Len(s) THEN <<>>
    ELSE IF i + 1 <= Len(s) /\ s[i] \in Lower /\ s[i + 1] \in Upper
         THEN <<SubSeq(s, i, i + 1)>> \o findall_from(s, i + 2)
    ELSE IF i + 2 <= Len(s) /\ s[i] \in Upper /\ s[i + 1] \in Upper /\ s[i + 2] \in Lower
         THEN <<SubSeq(s, i, i + 2)>> \o findall_from(s, i + 3)
    ELSE findall_from(s, i + 1)

RECURSIVE replace_parts(_, _, _)
\* for i in parts: _clsname = _clsname.replace(i, f'{i[0]}_{i[1:]}')
replace_parts(s, parts, j) ==
    IF j > Len(parts) THEN s
    ELSE replace_parts(replace_from(s, parts[j], <<parts[j][1], "_">> \o Tail(parts[j]), 1),
                       parts, j + 1)

\* functions.cls_name_to_slug
cls_name_to_slug(clsname) == lower(replace_parts(clsname, findall_from(clsname, 1), 1))

\* Model.item_name of the class of that name
item_name(clsname) == cls_name_to_slug(clsname)

\* ModelMap.get(slug, None), ModelMap holding each registered class under its
\* item_name
ModelMap_get(slug) ==
    IF \E c \in registered : item_name(c) = slug
    THEN Str(CHOOSE c \in registered : item_name(c) = slug)
    ELSE Null

\* getmodel on the text of a name: [st, model], st the exception when it raises
getmodel_text(value) ==
    IF value = <<>> THEN [st |-> "IndexError", model |-> Null]
    ELSE IF value[1] \in Upper
         THEN [st |-> "ok", model |-> ModelMap_get(cls_name_to_slug(value))]
         ELSE [st |-> "ok",
               model |-> ModelMap_get(replace(value, <<"_", "k", "e", "y">>, <<>>))]

\* ModelMap.get(slug, None): every type of Types is registered, nothing else is.
getmodel(value) == IF value \in Types THEN value ELSE None

RECURSIVE tables_of(_, _, _)
\* [getmodel(i) for i in meta.tables] over the fields of `kind` of `cls`, in order
tables_of(cls, kind, i) ==
    IF i > Len(fieldDecls) THEN <<>>
    ELSE LET d == fieldDecls[i]
         IN  IF d.owner = cls /\ d.kind = kind
             THEN <<getmodel(d.table)>> \o tables_of(cls, kind, i + 1)
             ELSE tables_of(cls, kind, i + 1)

key_dependencies(cls) == filter_uniques(tables_of(cls, "Key", 1))

tablekey_dependencies(cls) ==
    filter_uniques(filter_not_none(tables_of(cls, "TableKey", 1)))

primary_dependencies(cls) ==
    filter_not_none(filter_uniques(key_dependencies(cls) \o tablekey_dependencies(cls)))

\* What a traversal has produced so far: st is "ok" or the exception that ended it.
RECURSIVE recursive(_, _, _)
RECURSIVE recursive_each(_, _, _, _)
\* recursive(model) entered with `depth` frames already nested
recursive(model, depth, acc) ==
    IF acc.st # "ok" THEN acc
    ELSE IF depth >= RecursionLimit THEN [acc EXCEPT !.st = "RecursionError"]
    ELSE IF model = None
         \* result.append(None), then None.primary_dependencies()
         THEN [st |-> "AttributeError", result |-> Append(acc.result, model)]
    ELSE recursive_each(primary_dependencies(model), 1, depth + 1,
                        [acc EXCEPT !.result = Append(@, model)])

\* for item in dependents: recursive(item)
recursive_each(items, i, depth, acc) ==
    IF i > Len(items) \/ acc.st # "ok" THEN acc
    ELSE recursive_each(items, i + 1, depth, recursive(items[i], depth, acc))

RECURSIVE getmodel_each(_, _)
getmodel_each(names, i) ==
    IF i > Len(names) THEN <<>>
    ELSE <<getmodel(names[i])>> \o getmodel_each(names, i + 1)

\* Mutant: the class itself is walked as its own first dependency.
dependencies_with_self(cls) ==
    LET seeds == <<cls>> \o primary_dependencies(cls)
                    \o getmodel_each(EXTRA_DEPENDENTS[cls], 1)
        walk  == recursive_each(seeds, 1, 0, [st |-> "ok", result |-> <<>>])
    IN  IF walk.st = "ok"
        THEN [st |-> "ok", result |-> filter_uniques(walk.result)]
        ELSE [st |-> walk.st, result |-> <<>>]

\* Model.dependencies: [st, result]; result is the returned list when st = "ok"
dependencies(cls) ==
    LET seeds == primary_dependencies(cls) \o getmodel_each(EXTRA_DEPENDENTS[cls], 1)
        walk  == recursive_each(seeds, 1, 0, [st |-> "ok", result |-> <<>>])
    IN  IF walk.st = "ok"
        THEN [st |-> "ok", result |-> filter_uniques(walk.result)]
        ELSE [st |-> walk.st, result |-> <<>>]

(***************************************************************************)
(* ormspace/keys.py                                                        *)
(***************************************************************************)
WordChars == {"a", "b"}
Alphabet == WordChars \cup {".", "-"}

\* Mutant: \w+? in place of \w+ (the shortest match).
word_run_shortest(s, i) ==
    IF i > Len(s) \/ s[i] \notin WordChars THEN 0 ELSE 1

RECURSIVE word_run(_, _)
\* length of the longest match of \w+ in s starting at position i (0: no match)
word_run(s, i) ==
    IF i > Len(s) \/ s[i] \notin WordChars THEN 0 ELSE 1 + word_run(s, i + 1)

\* table_key_pattern.search(s).groupdict() for ^((?P<table>\w+)\.)?(?P<key>\w+);
\* {} (both groups missing) when there is no match
table_key_pattern(s) ==
    LET n == word_run(s, 1)
        m == word_run(s, n + 2)
    IN  IF n = 0 THEN [table |-> Null, key |-> Null]
        ELSE IF n < Len(s) /\ s[n + 1] = "." /\ m > 0
             THEN [table |-> Str(SubSeq(s, 1, n)),
                   key |-> Str(SubSeq(s, n + 2, n + 1 + m))]
             ELSE [table |-> Null, key |-> Str(SubSeq(s, 1, n))]

\* Key.__init__: the key property is the value, or None for a falsy value; data
\* is the text of the UserString, self.key or ''
Key(value) ==
    LET key == IF Truthy(value) THEN value ELSE Null
    IN  [built |-> TRUE, data |-> IF Truthy(key) THEN key.s ELSE <<>>, key |-> key]

\* TableKey.__init__: data is the text of the UserString
TableKey(value) ==
    LET v == IF Truthy(value) THEN value.s ELSE <<>>
        groupdict == IF v # <<>> THEN table_key_pattern(v)
                     ELSE [table |-> Null, key |-> Null]
    IN  IF Truthy(groupdict.table) /\ Truthy(groupdict.key)
        THEN [data |-> groupdict.table.s \o <<".">> \o groupdict.key.s,
              table |-> groupdict.table, key |-> groupdict.key]
        ELSE [data |-> <<>>, table |-> groupdict.table, key |-> groupdict.key]

(***************************************************************************)
(* ormspace/keybase.py                                                     *)
(***************************************************************************)
\* keybase.TableKey.__init__, with the same pattern as keys.py: self.table and
\* self.key are assigned only when the value is falsy or the pattern matches, so
\* the test `self.table and self.key` raises AttributeError for a non-empty
\* value the pattern does not match
keybase_TableKey(value) ==
    LET v == IF Truthy(value) THEN value.s ELSE <<>>
        groupdict == IF v # <<>> THEN table_key_pattern(v)
                     ELSE [table |-> Null, key |-> Null]
    IN  IF v # <<>> /\ word_run(v, 1) = 0
        THEN [st |-> "AttributeError", data |-> <<>>, table |-> Null, key |-> Null]
        ELSE IF Truthy(groupdict.table) /\ Truthy(groupdict.key)
        THEN [st |-> "built", data |-> groupdict.table.s \o <<".">> \o groupdict.key.s,
              table |-> groupdict.table, key |-> groupdict.key]
        ELSE [st |-> "built", data |-> <<>>, table |-> groupdict.table,
              key |-> groupdict.key]

(***************************************************************************)
(* ormspace/metainfo.py, spacemodel/metadata.py                            *)
(***************************************************************************)
\* The dataclass fields modelled and their defaults: MetaInfo has form_field
\* (None) and config (''), MetaData has these and col ('col-12').
MetaClasses == {"MetaInfo", "MetaData"}
FieldsOf(cls) ==
    IF cls = "MetaInfo" THEN {"form_field", "config"} ELSE {"form_field", "config", "col"}
Default(a) == IF a = "form_field" THEN None ELSE IF a = "config" THEN "" ELSE "col-12"

\* An argument of the declaration of a fragment: not given, or a value.
Unset == "Unset"
MetaValues == {"", "x", "y"}

\* Python truthiness of the value of a field
Present(v) == v \notin {None, ""}

\* cls(**kwargs).asdict(): every field, with its default where no argument was
\* given
asdict(cls, kwargs) ==
    [a \in FieldsOf(cls) |-> IF kwargs[a] = Unset THEN Default(a) ELSE kwargs[a]]

RECURSIVE update_from(_, _, _, _)
\* result.update({k: v for k, v in item.asdict().items() if v}) for the fragments
\* from the i-th on
update_from(cls, frags, i, result) ==
    IF i > Len(frags) THEN result
    ELSE LET item == asdict(cls, frags[i])
         IN  update_from(cls, frags, i + 1,
                 [a \in FieldsOf(cls) |-> IF Present(item[a]) THEN item[a] ELSE result[a]])

\* MetaInfo.compile / MetaData.merge: cls(**result), a key that result lacks
\* (written Unset) taking the default
compile(cls, frags) ==
    asdict(cls, update_from(cls, frags, 1, [a \in FieldsOf(cls) |-> Unset]))

(***************************************************************************)
(* ormspace/database.py                                                    *)
(***************************************************************************)
\* An item of a table, as the store returns it: a dict with its key.
Item(k) == [key |-> k]
EmptyDict == [k \in {} |-> Item("k1")]
\* A ContextVar that was never set in the module-level context: context.get
\* gives None for it, which its callers only test for truth, as they do the
\* empty dict; its value is written as the empty dict.
UnsetSlot == [isset |-> FALSE, value |-> EmptyDict]

\* The class attribute FETCH_QUERY: B declares one, A and C do not.
FETCH_QUERY == [t \in Types |-> IF t = "B" THEN "QF" ELSE "NoQuery"]

\* Python truthiness of a query
QueryTruthy(q) == q \in {"Q1", "QF"}

\* The keys a query lets through at the store (None and {} filter nothing).
Selects(q) == IF q = "Q1" THEN {"k1"} ELSE IF q = "QF" THEN {"k2"} ELSE Keys

KeyOrder == <<"k1", "k2">>

\* Database.fetch_all: the items of the model's table that match, in key order
fetch_all(model, query) ==
    LET ks == SelectSeq(KeyOrder, LAMBDA k : k \in store[model] /\ k \in Selects(query))
    IN  [i \in DOMAIN ks |-> Item(ks[i])]

\* Database.context_data: context.get(contextvar), falsy when unset
context_data(model) ==
    IF context[model].isset THEN context[model].value ELSE EmptyDict

\* {key(i): i for i in items}: a later item replaces an earlier one with its key
key_index(items) ==
    [k \in {items[i].key : i \in DOMAIN items} |->
        items[CHOOSE i \in DOMAIN items :
                /\ items[i].key = k
                /\ \A j \in DOMAIN items : j > i => items[j].key # k]]

\* Mutant: the items fetched are added to the dict the ContextVar holds.
contextvar_update(model, items) ==
    LET old == context_data(model)
        new == key_index(items)
    IN  [isset |-> TRUE,
         value |-> [k \in DOMAIN old \cup DOMAIN new |->
                       IF k \in DOMAIN new THEN new[k] ELSE old[k]]]

\* Database.set_context: contextvar.set of the dict built from the items fetched
contextvar_set(model, items) == [isset |-> TRUE, value |-> key_index(items)]

\* An item as the store may return it: a dict that has a 'key' entry or not, and
\* the rest of its data n.
Record(haskey, k, n) == [haskey |-> haskey, key |-> k, n |-> n]
Records == {Record(TRUE, k, n) : k \in Keys \cup {""}, n \in 1..2}
               \cup {Record(FALSE, "", n) : n \in 1..2}

\* functions.getter(obj, 'key') on a dict: obj.get('key', None)
getter(obj) == IF obj.haskey THEN obj.key ELSE None

\* Database.set_context: {key(i): i for i in items} with key = new_getter('key');
\* a later item replaces an earlier one that has its key
index_by_key(items) ==
    [k \in {getter(items[i]) : i \in DOMAIN items} |->
        items[CHOOSE i \in DOMAIN items :
                /\ getter(items[i]) = k
                /\ \A j \in DOMAIN items : j > i => getter(items[j]) # k]]

\* No continuation marker: the `last` of a final response, and of a first request.
NoMarker == 0

\* base.fetch(query=query, last=last) of the store: the page after the one the
\* marker names, with the marker of that page unless it is the final one
base_fetch(last) ==
    [items |-> pages[last + 1],
     last |-> IF last + 1 < Len(pages) THEN last + 1 ELSE NoMarker]

\* Mutant: the loop is never entered.
more_pages_never(last) == FALSE

\* fetch_all: while result.last
more_pages(last) == last # NoMarker

\* Database.update_dependencies: the query a model's task is started with
task_query(queries, item) ==
    IF \A t \in Types : queries[t] = Absent
    THEN FETCH_QUERY[item]
    ELSE IF queries[item] # Absent THEN queries[item] ELSE FETCH_QUERY[item]

\* Mutant: the lazy flag is dropped, every call fetches.
needs_fetch_always(lazy, query, model) == TRUE

\* Mutant: cached data is trusted whether or not the call is lazy.
needs_fetch_unless_cached(lazy, query, model) == context_data(model) = EmptyDict

\* Database.set_context: whether the model's table is fetched
needs_fetch(lazy, query, model) ==
    LET lz == IF QueryTruthy(query) THEN FALSE ELSE lazy
    IN  IF lz THEN context_data(model) = EmptyDict ELSE TRUE

\* Database.set_context: query or self.model.FETCH_QUERY
sent_query(query, model) ==
    IF QueryTruthy(query) THEN query ELSE FETCH_QUERY[model]

\* Mutant: a failed fetch leaves an empty dict in the model's ContextVar.
context_on_error_emptied(model) ==
    [context EXCEPT ![model] = [isset |-> TRUE, value |-> EmptyDict]]

\* Database.set_context when fetch_all raises: the dict is never built and
\* contextvar.set is not reached
context_on_error(model) == context

\* Mutant: the siblings of a task that raised are left running.
on_task_error_detached(task, item) ==
    [t \in Types |-> IF t = item THEN "failed" ELSE task[t]]

\* The task group of update_dependencies when the task of `item` raises: the
\* tasks that have not finished are cancelled.
on_task_error(task, item) ==
    [t \in Types |-> IF t = item THEN "failed"
                     ELSE IF task[t] \in {"scheduled", "fetching"} THEN "cancelled"
                     ELSE task[t]]

\* Mutant: the exception of a task is swallowed.
group_outcome_swallowing(task) ==
    IF \A t \in Types : task[t] \notin {"scheduled", "fetching"} THEN "done"
    ELSE "running"

\* Leaving the task group: the exception of a task is raised to the caller of
\* update_dependencies; otherwise the call returns when no task is left.
group_outcome(task) ==
    IF \E t \in Types : task[t] = "failed" THEN "failed"
    ELSE IF \A t \in Types : task[t] \in {"none", "done", "skipped"} THEN "done"
    ELSE "running"

\* Database.fetch: one response of the store, with the matching items and their
\* number
Database_fetch(model, query) ==
    LET items == fetch_all(model, query)
    IN  [count |-> Len(items), items |-> items]

\* Mutant: of several matching records the first one is returned.
Database_exist_first(model, query) ==
    LET result == Database_fetch(model, query)
    IN  IF result.count = 0 THEN [kind |-> "None", items |-> <<>>]
        ELSE [kind |-> "dict", items |-> <<result.items[1]>>]

\* Database.exist: the record, None, or the list of the matching records
Database_exist(model, query) ==
    LET result == Database_fetch(model, query)
    IN  IF result.count = 1 THEN [kind |-> "dict", items |-> <<result.items[1]>>]
        ELSE IF result.count = 0 THEN [kind |-> "None", items |-> <<>>]
        ELSE [kind |-> "list", items |-> result.items]

RECURSIVE split_from(_, _, _)
\* str.split() of s[i:], `word` being the run of non-blank characters read so far
split_from(s, i, word) ==
    IF i > Len(s) THEN (IF word = <<>> THEN <<>> ELSE <<word>>)
    ELSE IF s[i] = " "
         THEN (IF word = <<>> THEN <<>> ELSE <<word>>) \o split_from(s, i + 1, <<>>)
         ELSE split_from(s, i + 1, Append(word, s[i]))

\* asjson.get(k)
asjson_get(k) == IF k \in DOMAIN asjson THEN asjson[k] ELSE Null

\* Model.exist_query for an EXIST_QUERY that is None or a string: None, or the dict
\* {k: asjson.get(k) for k in self.EXIST_QUERY.split() if k}
exist_query ==
    IF ~Truthy(EXIST_QUERY) THEN [st |-> "None", query |-> [k \in {} |-> Null]]
    ELSE LET names == split_from(EXIST_QUERY.s, 1, <<>>)
         IN  [st |-> "dict",
              query |-> [k \in {names[i] : i \in DOMAIN names} |-> asjson_get(k)]]

\* Model.exist on an entity whose exist_query() is `query`; `declared` tells
\* whether its class has a truthy EXIST_QUERY
exist(model, declared, query) ==
    IF ~declared THEN [st |-> "ok", found |-> FALSE, item |-> Item("k1")]
    ELSE LET result == Database_exist(model, query)
         IN  IF result.kind = "dict"
             THEN [st |-> "ok", found |-> TRUE, item |-> result.items[1]]
             ELSE IF result.kind = "list" /\ result.items # <<>>
             THEN [st |-> "ExistException", found |-> FALSE, item |-> Item("k1")]
             ELSE [st |-> "ok", found |-> FALSE, item |-> Item("k1")]

\* Mutant: the entity is saved whatever the existence check returned.
save_new_saves_always(exist_result) == TRUE

\* Model.save_new: if not exist
save_new_saves(exist_result) == ~exist_result.found

\* Mutant: any record of the slot is returned when the key is not in it.
object_from_context_any(model, key) ==
    LET value == context_data(model)
    IN  IF value = EmptyDict THEN [found |-> FALSE, item |-> Item("k1")]
        ELSE IF key \in DOMAIN value THEN [found |-> TRUE, item |-> value[key]]
        ELSE [found |-> TRUE, item |-> value[CHOOSE k \in DOMAIN value : TRUE]]

\* Database.object_from_context
NoItem == [found |-> FALSE, item |-> Item("k1")]
object_from_context(model, key) ==
    LET value == context_data(model)
    IN  IF value # EmptyDict /\ key \in DOMAIN value
        THEN [found |-> TRUE, item |-> value[key]]
        ELSE NoItem

\* Mutant: a key the slot does not hold is fetched from the model's table.
instance_from_context_fetching(model, key) ==
    LET data == object_from_context(model, key)
    IN  IF data.found THEN [type |-> "model", str |-> None, data |-> data]
        ELSE IF key \in store[model]
        THEN [type |-> "model", str |-> None,
              data |-> [found |-> TRUE, item |-> Item(key)]]
        ELSE [type |-> "None", str |-> None, data |-> NoItem]

\* Database.instance_from_context: the model built from the record, or None
instance_from_context(model, key) ==
    LET data == object_from_context(model, key)
    IN  IF data.found THEN [type |-> "model", str |-> None, data |-> data]
        ELSE [type |-> "None", str |-> None, data |-> NoItem]

\* Model.set_instance_dependencies for one reference field of the instance: a
\* Key field whose instance_name_for is `table`, or a TableKey field whose table
\* is `table`; `truthy` tells whether the field holds a non-empty address. The
\* result is how the call ended and the instance left on the field.
set_instance_dependencies(kind, table, key, truthy) ==
    IF kind = "Key"
    THEN IF getmodel(table) = None
         \* None.Database
         THEN [st |-> "AttributeError",
               instance |-> [type |-> "None", str |-> None, data |-> NoItem]]
         ELSE [st |-> "ok",
               instance |-> IF truthy THEN instance_from_context(getmodel(table), key)
                            ELSE [type |-> "None", str |-> None, data |-> NoItem]]
    ELSE IF truthy
         \* tk.set_instance(tk.table) stores the table name and returns None, on which
         \* .Database is then read
         THEN [st |-> "AttributeError",
               instance |-> [type |-> "str", str |-> table, data |-> NoItem]]
         ELSE [st |-> "ok", instance |-> [type |-> "None", str |-> None, data |-> NoItem]]

\* A record with a reference: its key and the value of the Key field of its
\* class (None when the field is empty or the class has none).
RefRecord(k, ref) == [key |-> k, ref |-> ref]

RECURSIVE model_post_init(_, _, _)
RECURSIVE resolve_fields(_, _, _, _)
\* model(**data) with `depth` constructions already nested: model_post_init calls
\* set_instance_dependencies; "ok", or the exception that ended the construction
model_post_init(model, data, depth) ==
    IF depth >= RecursionLimit THEN "RecursionError"
    ELSE resolve_fields(model, data, 1, depth)

\* set_instance_dependencies over the Key fields of the class from the i-th
\* declaration on: each field is a new Key without instance, so the record under
\* its key in the slot of the referred class is constructed in turn
resolve_fields(model, data, i, depth) ==
    IF i > Len(fieldDecls) THEN "ok"
    ELSE IF fieldDecls[i].owner # model \/ fieldDecls[i].kind # "Key"
    THEN resolve_fields(model, data, i + 1, depth)
    ELSE LET target == getmodel(fieldDecls[i].table)
         IN  IF target = None THEN "AttributeError"
             ELSE LET found == object_from_context(target, data.ref)
                      st == IF found.found
                            THEN model_post_init(target, found.item, depth + 1)
                            ELSE "ok"
                  IN  IF st # "ok" THEN st
                      ELSE resolve_fields(model, data, i + 1, depth)

RECURSIVE start_refreshes(_, _, _, _)
\* The loop of update_instance_context over the dependencies from the i-th on;
\* data[t] is the entry of the data under the model_key_name of t, Absent when
\* the data has no such entry. `mkn := m.model_key_name() in data` binds the
\* truth value of the test, so for an entry that is present the query is built
\* from data[True], which no serialized data has.
start_refreshes(deps, data, i, started) ==
    IF i > Len(deps) THEN [st |-> "ok", started |-> started]
    ELSE IF deps[i] = None THEN [st |-> "AttributeError", started |-> started]
    ELSE IF data[deps[i]] # Absent THEN [st |-> "KeyError", started |-> started]
    ELSE start_refreshes(deps, data, i + 1, started)

RECURSIVE resolve_declared(_, _, _)
\* set_instance_dependencies over the reference fields of cls from the i-th
\* declaration on, each field holding the entry of the data for its table
resolve_declared(cls, data, i) ==
    IF i > Len(fieldDecls) THEN "ok"
    ELSE IF fieldDecls[i].owner # cls THEN resolve_declared(cls, data, i + 1)
    ELSE LET d == fieldDecls[i]
             v == IF d.table \in Types THEN data[d.table] ELSE Absent
             r == set_instance_dependencies(d.kind, d.table, v, v \notin {Absent, ""})
         IN  IF r.st # "ok" THEN r.st ELSE resolve_declared(cls, data, i + 1)

\* Model.update_instance_context: how the call ended, the fetches it started
\* (model and key of the query) and whether set_instance_dependencies was run.
\* An exception in the body of the task group leaves the call before that.
update_instance_context(cls, data) ==
    LET deps == dependencies(cls)
        group == IF deps.st = "ok" THEN start_refreshes(deps.result, data, 1, {})
                 ELSE [st |-> deps.st, started |-> {}]
    IN  IF group.st # "ok"
        THEN [st |-> group.st, started |-> group.started, reresolved |-> FALSE]
        ELSE [st |-> resolve_declared(cls, data, 1), started |-> group.started,
              reresolved |-> TRUE]

(***************************************************************************)
(* Initial states                                                          *)
(***************************************************************************)
FieldDecl == [owner : Types, kind : Kinds, table : Names]

NotYet == "NotYet"

RegistryInit ==
    /\ fieldDecls \in SeqsUpTo(FieldDecl, MaxFields)
    /\ EXTRA_DEPENDENTS \in {[t \in Types |-> extra] : extra \in SeqsUpTo(Names, 1)}

\* The registry the population scenarios run on: A refers to B and C, B to C.
PopulateRegistry ==
    /\ fieldDecls = << [owner |-> "A", kind |-> "Key", table |-> "B"],
                       [owner |-> "A", kind |-> "TableKey", table |-> "C"],
                       [owner |-> "B", kind |-> "Key", table |-> "C"] >>
    /\ EXTRA_DEPENDENTS = [t \in Types |-> <<>>]

NoResult == [st |-> NotYet, result |-> <<>>]
NoKey == [data |-> <<>>, table |-> Null, key |-> Null]

NoQueries == [t \in Types |-> Absent]
NoLookup == [scope |-> None, model |-> None, key |-> None, result |-> NoItem]
NewCall ==
    [st |-> "new", scope |-> None, root |-> None, lazy |-> FALSE, queries |-> NoQueries,
     task |-> [t \in Types |-> "none"],
     \* history: fetches issued per model, the query each was sent with, the items
     \* each fetch returned, the cache as the call found it, the store writes seen
     \* at its start and at its end
     issued |-> [t \in Types |-> 0], sent |-> [t \in Types |-> Absent],
     res |-> [t \in Types |-> <<>>],
     before |-> [t \in Types |-> EmptyDict], mut0 |-> 0, mut1 |-> 0]

ClosureIdle == croot = NotYet /\ cres = NoResult
KeyIdle == raw = Null /\ kpc = "raw" /\ tkey = NoKey
StoreInit ==
    /\ store = [t \in Types |-> IF t = "B" THEN Keys ELSE {"k1"}]
    /\ mutations = 0
CacheIdle ==
    /\ context = [t \in Types |-> UnsetSlot]
    /\ lastWriter = [t \in Types |-> None]
    /\ calls = [c \in 1..MaxCalls |-> NewCall]
    /\ ncalls = 0
    /\ lastLookup = NoLookup
\* No Key was built yet.
NoBareKey == [built |-> FALSE, data |-> <<>>, key |-> Null]
\* Model.exist was not called yet.
NoExist == [st |-> NotYet, model |-> None, declared |-> FALSE, query |-> "NoQuery",
            count |-> 0, found |-> FALSE, item |-> Item("k1")]
\* getmodel was not called yet.
NoModel == [st |-> NotYet, model |-> Null]
ExistIdle == bkey = NoBareKey /\ existRes = NoExist
NamesIdle == registered = {} /\ gname = <<>> /\ gres = NoModel
\* The fields of the entities whose exist_query is built.
FieldNames == {<<"f">>, <<"g">>}
\* exist_query was not called yet.
NoQueryYet == [st |-> NotYet, query |-> [k \in {} |-> Null]]
QueryIdle ==
    /\ EXIST_QUERY = Null
    /\ asjson = [k \in FieldNames |-> Null]
    /\ equery = NoQueryYet
\* set_instance_dependencies was not called yet.
NoResolve == [st |-> NotYet, kind |-> None, table |-> None, key |-> None,
              truthy |-> FALSE, instance |-> [type |-> "None", str |-> None, data |-> NoItem]]
ResolveIdle == resolved = NoResolve
\* keybase.TableKey was not built yet.
NoKeybaseKey == [st |-> NotYet, data |-> <<>>, table |-> Null, key |-> Null]
KeybaseIdle == kbkey = NoKeybaseKey
\* set_context has not indexed a fetch result yet.
NotIndexed == [st |-> NotYet, slot |-> [k \in {} |-> Record(FALSE, "", 1)]]
IndexIdle == fetched = <<>> /\ indexed = NotIndexed
\* fetch_all was not called yet.
NoFetchAll == [st |-> NotYet, data |-> <<>>, last |-> NoMarker, requests |-> <<>>]
PagingIdle == pages = <<>> /\ fa = NoFetchAll
\* No metadata was merged yet.
NotMerged == [st |-> NotYet, data |-> [a \in {} |-> ""]]
MetaIdle == mclass = "MetaInfo" /\ fragments = <<>> /\ merged = NotMerged
\* No instance was constructed yet.
NotBuilt == [st |-> NotYet, model |-> None, key |-> None]
BuiltIdle == built = NotBuilt
\* update_instance_context was not called yet.
NoRefresh == [st |-> NotYet, cls |-> None, started |-> {}, reresolved |-> FALSE]
RefreshIdle == udata = [t \in Types |-> Absent] /\ uic = NoRefresh
\* save_new was not called yet.
NoSave == [st |-> NotYet, model |-> None, key |-> None,
           exist |-> [st |-> NotYet, found |-> FALSE], puts |-> 0, ret |-> None]
SaveIdle == sv = NoSave
LibIdle ==
    KeybaseIdle /\ IndexIdle /\ PagingIdle /\ MetaIdle /\ BuiltIdle /\ RefreshIdle /\ SaveIdle
CallsIdle == ExistIdle /\ NamesIdle /\ QueryIdle /\ ResolveIdle /\ LibIdle

(***************************************************************************)
(* Actions                                                                 *)
(***************************************************************************)
\* MetaInfo.compile(field_info) / MetaData.merge(field_info)
Merge ==
    /\ merged = NotMerged
    /\ merged' = [st |-> "merged", data |-> compile(mclass, fragments)]
    /\ UNCHANGED <<coreVars, kbkey, indexVars, pagingVars, mclass, fragments, built,
                   refreshVars, sv>>

\* model(**data) for the record the cache holds under `key` in the slot of `model`
Construct(model, key) ==
    /\ built = NotBuilt
    /\ object_from_context(model, key).found
    /\ built' = [st |-> model_post_init(model, object_from_context(model, key).item, 0),
                 model |-> model, key |-> key]
    /\ UNCHANGED <<coreVars, kbkey, indexVars, pagingVars, metaVars, refreshVars, sv>>

\* await instance.update_instance_context() on an instance of cls
UpdateInstanceContext(cls) ==
    /\ uic = NoRefresh
    /\ LET r == update_instance_context(cls, udata)
       IN  uic' = [st |-> r.st, cls |-> cls, started |-> r.started,
                   reresolved |-> r.reresolved]
    /\ UNCHANGED <<coreVars, kbkey, indexVars, pagingVars, metaVars, built, udata, sv>>

\* await entity.save_new() up to the end of `exist = await self.exist()`, for an
\* entity of `model` with key k
SaveNewExist(model, declared, query, k) ==
    /\ sv = NoSave
    /\ LET r == exist(model, declared, query)
       IN  sv' = [st |-> IF r.st # "ok" THEN "raised"
                         ELSE IF save_new_saves(r) THEN "saving" ELSE "returned",
                  model |-> model, key |-> k,
                  exist |-> [st |-> r.st, found |-> r.found], puts |-> 0, ret |-> None]
    /\ UNCHANGED <<coreVars, kbkey, indexVars, pagingVars, metaVars, built, refreshVars>>

\* save_new: return await self.save(); Database.save puts the data under its key
SaveNewSave ==
    /\ sv.st = "saving"
    /\ store' = [store EXCEPT ![sv.model] = @ \cup {sv.key}]
    /\ sv' = [sv EXCEPT !.st = "returned", !.puts = @ + 1, !.ret = "record"]
    /\ UNCHANGED <<regVars, closureVars, keyVars, mutations, cacheVars, bkey, existRes,
                   nameVars, queryVars, resolved, kbkey, indexVars, pagingVars, metaVars,
                   built, refreshVars>>

\* save_new: the put fails at the store and Database.save raises SaveException
SaveNewSaveRaises ==
    /\ sv.st = "saving"
    /\ sv' = [sv EXCEPT !.st = "raised", !.puts = @ + 1]
    /\ UNCHANGED <<coreVars, kbkey, indexVars, pagingVars, metaVars, built, refreshVars>>

\* cls.dependencies() for a registered class
Dependencies(cls) ==
    /\ cres = NoResult
    /\ croot' = cls
    /\ cres' = dependencies(cls)
    /\ UNCHANGED <<regVars, callVars, keyVars, storeVars, cacheVars>>

\* TableKey(value, info)
TableKeyInit ==
    /\ kpc = "raw"
    /\ kpc' = "built"
    /\ tkey' = TableKey(raw)
    /\ UNCHANGED <<regVars, callVars, closureVars, raw, storeVars, cacheVars>>

\* Key(value, info)
KeyInit ==
    /\ ~bkey.built
    /\ bkey' = Key(raw)
    /\ UNCHANGED <<regVars, closureVars, keyVars, storeVars, cacheVars, existRes, nameVars,
                   queryVars, resolved, libVars>>

\* keybase.TableKey(value, info)
KeybaseTableKeyInit ==
    /\ kbkey = NoKeybaseKey
    /\ kbkey' = keybase_TableKey(raw)
    /\ UNCHANGED <<coreVars, indexVars, pagingVars, metaVars, built, refreshVars, sv>>

\* set_context builds the dict of the items fetch_all returned
IndexFetched ==
    /\ indexed = NotIndexed
    /\ indexed' = [st |-> "set", slot |-> index_by_key(fetched)]
    /\ UNCHANGED <<coreVars, kbkey, fetched, pagingVars, metaVars, built, refreshVars, sv>>

\* fetch_all: result = await base.fetch(query=query); data = result.items
FetchAllFirst ==
    /\ fa.st = NotYet
    /\ LET result == base_fetch(NoMarker)
       IN  fa' = [st |-> "paging", data |-> result.items, last |-> result.last,
                  requests |-> <<NoMarker>>]
    /\ UNCHANGED <<coreVars, kbkey, indexVars, pages, metaVars, built, refreshVars, sv>>

\* fetch_all: one turn of the loop, base.fetch(query=query, last=result.last)
FetchAllNext ==
    /\ fa.st = "paging"
    /\ more_pages(fa.last)
    /\ LET result == base_fetch(fa.last)
       IN  fa' = [st |-> "paging", data |-> fa.data \o result.items,
                  last |-> result.last, requests |-> Append(fa.requests, fa.last)]
    /\ UNCHANGED <<coreVars, kbkey, indexVars, pages, metaVars, built, refreshVars, sv>>

\* fetch_all: the loop is left and data is returned
FetchAllReturn ==
    /\ fa.st = "paging"
    /\ ~more_pages(fa.last)
    /\ fa' = [fa EXCEPT !.st = "returned"]
    /\ UNCHANGED <<coreVars, kbkey, indexVars, pages, metaVars, built, refreshVars, sv>>

\* fetch_all: a request to the store raises; the exception leaves fetch_all
\* through the finally clause and nothing is returned
FetchAllRaises ==
    /\ fa.st = NotYet \/ (fa.st = "paging" /\ more_pages(fa.last))
    /\ fa' = [fa EXCEPT !.st = "raised", !.data = <<>>]
    /\ UNCHANGED <<coreVars, kbkey, indexVars, pages, metaVars, built, refreshVars, sv>>

\* await entity.exist() for an entity of `model`; count is the number of records
\* of the store that match the query when the call is made
Exist(model, declared, query) ==
    /\ LET r == exist(model, declared, query)
       IN  existRes' = [st |-> r.st, model |-> model, declared |-> declared,
                        query |-> query,
                        count |-> Cardinality(store[model] \cap Selects(query)),
                        found |-> r.found, item |-> r.item]
    /\ UNCHANGED <<regVars, closureVars, keyVars, storeVars, cacheVars, bkey, nameVars, queryVars,
                   resolved, libVars>>

\* entity.exist_query()
ExistQuery ==
    /\ equery = NoQueryYet
    /\ equery' = exist_query
    /\ UNCHANGED <<regVars, closureVars, keyVars, storeVars, cacheVars, bkey, existRes,
                   nameVars, EXIST_QUERY, asjson, resolved, libVars>>

\* instance.set_instance_dependencies() on an instance with one reference field
SetInstanceDependencies(kind, table, key, truthy) ==
    /\ resolved = NoResolve
    /\ LET r == set_instance_dependencies(kind, table, key, truthy)
       IN  resolved' = [st |-> r.st, kind |-> kind, table |-> table, key |-> key,
                        truthy |-> truthy, instance |-> r.instance]
    /\ UNCHANGED <<regVars, closureVars, keyVars, storeVars, cacheVars, bkey, existRes,
                   nameVars, queryVars, libVars>>

\* getmodel(value) for the name drawn
GetModel ==
    /\ gres = NoModel
    /\ gres' = getmodel_text(gname)
    /\ UNCHANGED <<regVars, closureVars, keyVars, storeVars, cacheVars, bkey, existRes,
                   registered, gname, queryVars, resolved, libVars>>

\* cls.update_dependencies_context(lazy, queries) called in a scope, up to the
\* task group having scheduled one task per dependency
PopulateStart(scope, root, lazy, queries) ==
    /\ ncalls < MaxCalls
    /\ LET deps == dependencies(root)
           task == [t \in Types |->
                       IF deps.st = "ok" /\ \E i \in DOMAIN deps.result : deps.result[i] = t
                       THEN "scheduled" ELSE "none"]
       IN  calls' = [calls EXCEPT ![ncalls + 1] =
                [NewCall EXCEPT !.st = IF deps.st = "ok" THEN group_outcome(task) ELSE deps.st,
                                !.scope = scope, !.root = root, !.lazy = lazy,
                                !.queries = queries, !.task = task,
                                !.before = [t \in Types |-> context_data(t)],
                                !.mut0 = mutations, !.mut1 = mutations]]
    /\ ncalls' = ncalls + 1
    /\ lastLookup' = NoLookup
    /\ UNCHANGED <<regVars, callVars, closureVars, keyVars, storeVars, context, lastWriter>>

\* item.update_model_context(lazy, query) runs up to its await of fetch_all, or to
\* its end when the cached data is used
TaskBegin(c, item) ==
    /\ c \in 1..ncalls
    /\ calls[c].st = "running"
    /\ calls[c].task[item] = "scheduled"
    /\ LET call == calls[c]
           fetch == needs_fetch(call.lazy, task_query(call.queries, item), item)
           task == [call.task EXCEPT ![item] = IF fetch THEN "fetching" ELSE "skipped"]
       IN  calls' = [calls EXCEPT ![c] =
                [call EXCEPT !.task = task,
                             !.issued[item] = IF fetch THEN @ + 1 ELSE @,
                             !.sent[item] =
                                IF fetch
                                THEN sent_query(task_query(call.queries, item), item)
                                ELSE @,
                             !.st = group_outcome(task),
                             !.mut1 = mutations]]
    /\ lastLookup' = NoLookup
    /\ UNCHANGED <<regVars, callVars, closureVars, keyVars, storeVars, context, lastWriter, ncalls>>

\* fetch_all returns and the task sets the model's ContextVar to the indexed items
TaskFetched(c, item) ==
    /\ c \in 1..ncalls
    /\ calls[c].st = "running"
    /\ calls[c].task[item] = "fetching"
    /\ LET call == calls[c]
           items == fetch_all(item, call.sent[item])
           task == [call.task EXCEPT ![item] = "done"]
       IN  /\ context' = [context EXCEPT ![item] = contextvar_set(item, items)]
           /\ calls' = [calls EXCEPT ![c] =
                    [call EXCEPT !.task = task, !.res[item] = items,
                                 !.st = group_outcome(task), !.mut1 = mutations]]
    /\ lastWriter' = [lastWriter EXCEPT ![item] = calls[c].scope]
    /\ lastLookup' = NoLookup
    /\ UNCHANGED <<regVars, callVars, closureVars, keyVars, storeVars, ncalls>>

\* fetch_all raises (the store call fails): the task ends with the exception
TaskFailed(c, item) ==
    /\ c \in 1..ncalls
    /\ calls[c].st = "running"
    /\ calls[c].task[item] = "fetching"
    /\ LET call == calls[c]
           task == on_task_error(call.task, item)
       IN  calls' = [calls EXCEPT ![c] =
                [call EXCEPT !.task = task, !.st = group_outcome(task),
                             !.mut1 = mutations]]
    /\ context' = context_on_error(item)
    /\ lastLookup' = NoLookup
    /\ UNCHANGED <<regVars, callVars, closureVars, keyVars, storeVars, lastWriter, ncalls>>

\* Another client of the store puts or deletes an item.
StoreWrite(model, k) ==
    /\ mutations < MaxMutations
    /\ store' = [store EXCEPT ![model] = IF k \in @ THEN @ \ {k} ELSE @ \cup {k}]
    /\ mutations' = mutations + 1
    /\ lastLookup' = NoLookup
    /\ UNCHANGED <<regVars, callVars, closureVars, keyVars, context, lastWriter, calls, ncalls>>

\* model.object_from_context(key) called in a scope
Lookup(scope, model, key) ==
    /\ lastLookup = NoLookup
    /\ lastLookup' = [scope |-> scope, model |-> model, key |-> key,
                      result |-> object_from_context(model, key)]
    /\ UNCHANGED <<regVars, callVars, closureVars, keyVars, storeVars, context, lastWriter,
                   calls, ncalls>>

(***************************************************************************)
(* Specifications                                                          *)
(***************************************************************************)
InitClosure ==
    RegistryInit /\ ClosureIdle /\ KeyIdle /\ StoreInit /\ CacheIdle /\ CallsIdle
NextClosure == \E cls \in Types : Dependencies(cls)
SpecClosure == InitClosure /\ [][NextClosure]_vars

InitKey ==
    /\ PopulateRegistry /\ ClosureIdle /\ StoreInit /\ CacheIdle /\ CallsIdle
    /\ raw \in {Str(s) : s \in SeqsUpTo(Alphabet, MaxLen)} \cup {Null}
    /\ kpc = "raw"
    /\ tkey = NoKey
NextKey == TableKeyInit \/ KeyInit \/ KeybaseTableKeyInit
SpecKey == InitKey /\ [][NextKey]_vars

InitPopulate ==
    PopulateRegistry /\ ClosureIdle /\ KeyIdle /\ StoreInit /\ CacheIdle /\ CallsIdle

NoCallRunning == \A c \in 1..ncalls : calls[c].st # "running"

\* The queries arguments tried: none, or one override for a dependency.
QueryArgs ==
    {NoQueries} \cup {[NoQueries EXCEPT ![t] = q] : t \in {"B", "C"}, q \in {"Q1", "EmptyQ"}}

\* One caller in one scope repeats update_dependencies_context on the same class
\* with the same queries, each call after the previous one has ended.
PopulateAgain ==
    \E root \in Types, lazy \in BOOLEAN, queries \in QueryArgs :
        /\ NoCallRunning
        /\ ncalls > 0 => root = calls[1].root /\ queries = calls[1].queries
        /\ PopulateStart("s1", root, lazy, queries)

NextSeq ==
    \/ PopulateAgain
    \/ \E c \in 1..MaxCalls, item \in Types :
          TaskBegin(c, item) \/ TaskFetched(c, item) \/ TaskFailed(c, item)
    \/ \E model \in Types, k \in Keys : StoreWrite(model, k)
SpecSeq == InitPopulate /\ [][NextSeq]_vars

\* Requests in different scopes populate and read, one call after the other.
PopulateInScope ==
    \E scope \in Scopes, root \in Types, lazy \in BOOLEAN :
        NoCallRunning /\ PopulateStart(scope, root, lazy, NoQueries)

NextScope ==
    \/ PopulateInScope
    \/ \E c \in 1..MaxCalls, item \in Types :
          TaskBegin(c, item) \/ TaskFetched(c, item) \/ TaskFailed(c, item)
    \/ \E scope \in Scopes, model \in Types, k \in Keys : Lookup(scope, model, k)
SpecScope == InitPopulate /\ [][NextScope]_vars

\* Calls that overlap in time, as ModelGroup.instances starts them.
PopulateConcurrently ==
    \E root \in Types, lazy \in BOOLEAN : PopulateStart("s1", root, lazy, NoQueries)

NextConc ==
    \/ PopulateConcurrently
    \/ \E c \in 1..MaxCalls, item \in Types :
          TaskBegin(c, item) \/ TaskFetched(c, item) \/ TaskFailed(c, item)
    \/ \E model \in Types, k \in Keys : StoreWrite(model, k)
SpecConc == InitPopulate /\ [][NextConc]_vars

\* Entities are checked for existence while other clients write to the store.
NextExist ==
    \/ \E model \in Types, declared \in BOOLEAN, query \in Queries \ {"NoQuery"} :
          Exist(model, declared, query)
    \/ \E model \in Types, k \in Keys : StoreWrite(model, k)
SpecExist == InitPopulate /\ [][NextExist]_vars

\* The class names that modelmap may have registered, with distinct item names.
ClassNames ==
    { <<"X">>, <<"X", "K", "e", "y">>, <<"X", "K", "e", "y", "X">>, <<"K", "e", "y", "X">> }
\* The pieces the names handed to getmodel are made of.
Chunks ==
    { <<"X">>, <<"x">>, <<"K", "e", "y">>, <<"k", "e", "y">>,
      <<"_", "k", "e", "y">>, <<"_", "x">> }
RECURSIVE Flatten(_)
Flatten(ss) == IF ss = <<>> THEN <<>> ELSE Head(ss) \o Flatten(Tail(ss))

InitNames ==
    /\ PopulateRegistry /\ ClosureIdle /\ KeyIdle /\ StoreInit /\ CacheIdle /\ ExistIdle
    /\ QueryIdle /\ ResolveIdle /\ LibIdle
    /\ registered \in SUBSET ClassNames
    /\ gname \in {Flatten(ss) : ss \in SeqsUpTo(Chunks, MaxChunks)}
    /\ gres = NoModel
NextNames == GetModel
SpecNames == InitNames /\ [][NextNames]_vars

\* The values a field has in the serialized form: null, the empty string, a text.
FieldValues == {Null, Str(<<>>), Str(<<"v">>)}

InitQuery ==
    /\ PopulateRegistry /\ ClosureIdle /\ KeyIdle /\ StoreInit /\ CacheIdle /\ ExistIdle
    /\ NamesIdle /\ ResolveIdle /\ LibIdle
    /\ EXIST_QUERY \in {Null} \cup {Str(s) : s \in SeqsUpTo({"f", "g", " "}, MaxQueryLen)}
    /\ asjson \in [FieldNames -> FieldValues]
    /\ equery = NoQueryYet
NextQuery == ExistQuery
SpecQuery == InitQuery /\ [][NextQuery]_vars

\* Eager populate calls, one after the other, and an instance whose reference
\* field is resolved against the cache.
PopulateEagerly ==
    \E root \in Types : NoCallRunning /\ PopulateStart("s1", root, FALSE, NoQueries)

NextResolve ==
    \/ PopulateEagerly
    \/ \E c \in 1..MaxCalls, item \in Types :
          TaskBegin(c, item) \/ TaskFetched(c, item) \/ TaskFailed(c, item)
    \/ \E kind \in Kinds, table \in Names, key \in Keys, truthy \in BOOLEAN :
          NoCallRunning /\ SetInstanceDependencies(kind, table, key, truthy)
SpecResolve == InitPopulate /\ [][NextResolve]_vars

\* set_context indexes what a fetch returned.
InitIndex ==
    /\ PopulateRegistry /\ ClosureIdle /\ KeyIdle /\ StoreInit /\ CacheIdle
    /\ ExistIdle /\ NamesIdle /\ QueryIdle /\ ResolveIdle /\ KeybaseIdle /\ PagingIdle
    /\ MetaIdle /\ BuiltIdle /\ RefreshIdle /\ SaveIdle
    /\ fetched \in SeqsUpTo(Records, MaxItems)
    /\ indexed = NotIndexed
NextIndex == IndexFetched
SpecIndex == InitIndex /\ [][NextIndex]_vars

\* An instance is constructed from a record of a cache whose records refer to
\* one another: A and B may each declare one Key field, to any registered name.
KeyFieldOf(owner) ==
    {<<>>} \cup {<<[owner |-> owner, kind |-> "Key", table |-> t]>> : t \in Names}
SlotsOfRecords ==
    {[isset |-> TRUE, value |-> [k \in ks |-> RefRecord(k, ref[k])]] :
        ks \in SUBSET Keys, ref \in [Keys -> Keys \cup {None}]}
InitConstruct ==
    /\ fieldDecls \in {a \o b : a \in KeyFieldOf("A"), b \in KeyFieldOf("B")}
    /\ EXTRA_DEPENDENTS = [t \in Types |-> <<>>]
    /\ ClosureIdle /\ KeyIdle /\ StoreInit /\ CallsIdle
    /\ context \in {[t \in Types |-> IF t = "A" THEN a ELSE IF t = "B" THEN b ELSE UnsetSlot] :
                        a \in SlotsOfRecords, b \in SlotsOfRecords}
    /\ lastWriter = [t \in Types |-> None]
    /\ calls = [c \in 1..MaxCalls |-> NewCall]
    /\ ncalls = 0
    /\ lastLookup = NoLookup
NextConstruct == \E model \in Types, key \in Keys : Construct(model, key)
SpecConstruct == InitConstruct /\ [][NextConstruct]_vars

\* update_instance_context runs on an instance whose data has some of the key
\* names of the classes.
InitRefresh ==
    /\ PopulateRegistry /\ ClosureIdle /\ KeyIdle /\ StoreInit /\ CacheIdle
    /\ ExistIdle /\ NamesIdle /\ QueryIdle /\ ResolveIdle /\ KeybaseIdle /\ IndexIdle
    /\ PagingIdle /\ MetaIdle /\ BuiltIdle /\ SaveIdle
    /\ udata \in [Types -> Keys \cup {Absent, ""}]
    /\ uic = NoRefresh
NextRefresh == \E cls \in Types : UpdateInstanceContext(cls)
SpecRefresh == InitRefresh /\ [][NextRefresh]_vars

\* Entities are saved as new while other clients write to the store.
NextSave ==
    \/ \E model \in Types, declared \in BOOLEAN, query \in Queries \ {"NoQuery"},
          k \in Keys : SaveNewExist(model, declared, query, k)
    \/ SaveNewSave
    \/ SaveNewSaveRaises
    \/ \E model \in Types, k \in Keys : StoreWrite(model, k)
SpecSave == InitPopulate /\ [][NextSave]_vars

\* The fragments of one field are merged.
InitMeta ==
    /\ PopulateRegistry /\ ClosureIdle /\ KeyIdle /\ StoreInit /\ CacheIdle
    /\ ExistIdle /\ NamesIdle /\ QueryIdle /\ ResolveIdle /\ KeybaseIdle /\ IndexIdle
    /\ PagingIdle /\ BuiltIdle /\ RefreshIdle /\ SaveIdle
    /\ mclass \in MetaClasses
    /\ fragments \in SeqsUpTo([FieldsOf(mclass) -> MetaValues \cup {Unset}], MaxFragments)
    /\ merged = NotMerged
NextMeta == Merge
SpecMeta == InitMeta /\ [][NextMeta]_vars

\* One fetch_all call against a store that serves its result in pages; the event
\* loop resumes the call whenever the store has answered.
InitPaging ==
    /\ PopulateRegistry /\ ClosureIdle /\ KeyIdle /\ StoreInit /\ CacheIdle
    /\ ExistIdle /\ NamesIdle /\ QueryIdle /\ ResolveIdle /\ KeybaseIdle /\ IndexIdle
    /\ MetaIdle /\ BuiltIdle /\ RefreshIdle /\ SaveIdle
    /\ pages \in SeqsUpTo({[i \in DOMAIN ks |-> Item(ks[i])] : ks \in SeqsUpTo(Keys, PageSize)},
                          MaxPages) \ {<<>>}
    /\ fa = NoFetchAll
NextPaging == FetchAllFirst \/ FetchAllNext \/ FetchAllReturn \/ FetchAllRaises
SpecPaging == InitPaging /\ [][NextPaging]_vars /\ WF_vars(NextPaging)

(***************************************************************************)
(* Dependency closure: claims                                              *)
(***************************************************************************)
\* Some registered type reaches itself through the direct-dependency relation.
RECURSIVE ReachFrom(_, _)
ReachFrom(frontier, seen) ==
    LET new == {d \in Types : \E t \in frontier :
                    \E i \in DOMAIN primary_dependencies(t) :
                        primary_dependencies(t)[i] = d} \ seen
    IN  IF new = {} THEN seen ELSE ReachFrom(new, seen \cup new)

OnCycle(t) == t \in ReachFrom({t}, {})

\* The depth-first traversal with a visited list that the closure is specified by.
RECURSIVE Visit(_, _)
RECURSIVE VisitEach(_, _, _)
Visit(t, visited) ==
    IF \E j \in DOMAIN visited : visited[j] = t THEN visited
    ELSE VisitEach(primary_dependencies(t), 1, Append(visited, t))

VisitEach(items, i, visited) ==
    IF i > Len(items) THEN visited
    ELSE VisitEach(items, i + 1, Visit(items[i], visited))

FirstVisitOrder(cls) ==
    VisitEach(primary_dependencies(cls)
                \o filter_not_none(getmodel_each(EXTRA_DEPENDENTS[cls], 1)), 1, <<>>)

\* C1: closure(T) terminates with a result for every registered type T on any
\* finite registry, cycles in the direct-reference graph included: the traversal
\* never ends in RecursionError.
C1_ClosureTerminates == cres.st # "RecursionError"

\* C9: whenever closure(T) has been computed it returned normally, and its result
\* is exactly the types reachable from T's direct and extra dependencies, each
\* once, in depth-first first-visit order (so empty when T has neither).
C9_ClosureIsFirstVisitOrder ==
    cres.st # NotYet =>
        /\ cres.st = "ok"
        /\ cres.result = FirstVisitOrder(croot)

\* C17: computing the direct dependencies or the closure of a type whose field
\* metadata or EXTRA_DEPENDENTS names an unregistered type does not fail: the call
\* does not end in AttributeError, and what it returns holds registered types only.
C17_UnknownNamesSkipped ==
    cres.st # NotYet =>
        /\ \A i \in DOMAIN primary_dependencies(croot) :
              primary_dependencies(croot)[i] \in Types
        /\ cres.st # "AttributeError"
        /\ cres.st = "ok" => \A i \in DOMAIN cres.result : cres.result[i] \in Types

(***************************************************************************)
(* Key addresses: claims                                                   *)
(***************************************************************************)
IsWord(s) == s # <<>> /\ \A i \in DOMAIN s : s[i] \in WordChars

\* s is table.identifier with both parts non-empty words; the dot is at position d
DotAt(s, d) ==
    /\ d \in DOMAIN s
    /\ s[d] = "."
    /\ IsWord(SubSeq(s, 1, d - 1))
    /\ IsWord(SubSeq(s, d + 1, Len(s)))

\* C10: for every raw string table.identifier whose two parts are non-empty
\* words, the TableKey built from it has that same string as its text, and its
\* table and key are the two parts.
C10_TableKeyRoundTrip ==
    kpc = "built" =>
        \A d \in 1..MaxLen + 1 :
            (~raw.null /\ DotAt(raw.s, d)) =>
                /\ tkey.data = raw.s
                /\ tkey.table = Str(SubSeq(raw.s, 1, d - 1))
                /\ tkey.key = Str(SubSeq(raw.s, d + 1, Len(raw.s)))

\* A two-character table and a one-character identifier went through the parser.
C10_Witness ==
    /\ kpc = "built"
    /\ raw = Str(<<"a", "b", ".", "a">>)
    /\ tkey.data = <<"a", "b", ".", "a">>

\* C11: a TableKey is valid only when the whole raw string is table.identifier with
\* both parts non-empty words (then its text is that string); for every other raw
\* string its text is empty.
C11_WholeStringOrEmpty ==
    kpc = "built" =>
        IF \E d \in 1..MaxLen + 1 : DotAt(raw.s, d)
        THEN tkey.data = raw.s
        ELSE tkey.data = <<>>

\* C12: a Key keeps the identifier alone: the whole string when it is one word, and
\* the part after the dot when the string is table.identifier; its text (by which
\* keys are compared) is that identifier.
C12_KeyKeepsIdentifierOnly ==
    bkey.built =>
        /\ IsWord(raw.s) => (bkey.key = Str(raw.s) /\ bkey.data = raw.s)
        /\ \A d \in 1..MaxLen + 1 :
              DotAt(raw.s, d) =>
                  /\ bkey.key = Str(SubSeq(raw.s, d + 1, Len(raw.s)))
                  /\ bkey.data = SubSeq(raw.s, d + 1, Len(raw.s))


(***************************************************************************)
(* Population of the context cache: claims                                 *)
(***************************************************************************)
InSeq(x, seq) == \E i \in DOMAIN seq : seq[i] = x
\* The dependency set of a class, as the closure is specified.
Closure(cls) == {t \in Types : InSeq(t, FirstVisitOrder(cls))}
ItemKeys(items) == {items[i].key : i \in DOMAIN items}
Ended(c) == c \in 1..ncalls /\ calls[c].st \in {"done", "failed"}
\* Call c is the latest call, so the cache is as c left it.
Latest(c) == c = ncalls
\* The query that decides whether the task of t in call c fetches.
CallQuery(c, t) == task_query(calls[c].queries, t)

\* Calls c and c+1 are both lazy, both returned, and the store was not written
\* from the start of the first to the end of the second.
LazyPair(c) ==
    /\ c + 1 \in 1..ncalls
    /\ calls[c].lazy /\ calls[c + 1].lazy
    /\ calls[c].st = "done" /\ calls[c + 1].st = "done"
    /\ calls[c].root = calls[c + 1].root /\ calls[c].queries = calls[c + 1].queries
    /\ calls[c].mut0 = calls[c + 1].mut1

C3_FailedCallCommitsNothing ==
    \A c \in 1..MaxCalls :
        (Ended(c) /\ Latest(c) /\ calls[c].st = "failed") =>
            \A t \in Types : context_data(t) = calls[c].before[t]

\* C3 as amended: when a fetch of a populate call fails, the call ends with no
\* task left running; the slots of the types whose fetch failed or was cancelled
\* are as before the call, and the slot of a type whose fetch had completed
\* holds the indexed result of that fetch.
C3_FailedCallKeepsCompletedFetches ==
    \A c \in 1..MaxCalls :
        (Ended(c) /\ Latest(c) /\ calls[c].st = "failed") =>
            \A t \in Types :
                /\ calls[c].task[t] \notin {"scheduled", "fetching"}
                /\ IF calls[c].task[t] = "done"
                   THEN context_data(t) = key_index(calls[c].res[t])
                   ELSE context_data(t) = calls[c].before[t]

\* A call on A failed on B after its fetch of C had been committed.
C3_Witness ==
    \E c \in 1..ncalls :
        /\ Latest(c) /\ calls[c].st = "failed"
        /\ calls[c].task["B"] = "failed"
        /\ calls[c].task["C"] = "done"
        /\ context_data("C") # calls[c].before["C"]

\* C4: lazy calls that overlap never have two fetches of the same type in flight.
C4_OneFetchInFlightPerType ==
    \A c1, c2 \in 1..ncalls : \A t \in Types :
        (c1 # c2 /\ calls[c1].lazy /\ calls[c2].lazy) =>
            ~(calls[c1].task[t] = "fetching" /\ calls[c2].task[t] = "fetching")

\* C5: a lookup in a scope returns only what a populate call of that same scope
\* wrote, and a lazy populate trusts only data written in its own scope.
C5_ScopesIsolated ==
    /\ lastLookup.result.found => lastWriter[lastLookup.model] = lastLookup.scope
    /\ \A c \in 1..ncalls : \A t \in Types :
          calls[c].task[t] = "skipped" => lastWriter[t] = calls[c].scope

\* C6: a populate call with lazy=false that returned has issued one fetch for every
\* type of the dependency set, and right after it every such slot is exactly the
\* key index of what that fetch returned; when the store was not written since the
\* call began, that is the key index of the matching items now in the store.
C6_EagerCallRefetchesAndReplaces ==
    \A c \in 1..MaxCalls :
        (Ended(c) /\ calls[c].st = "done" /\ ~calls[c].lazy) =>
            \A t \in Closure(calls[c].root) :
                /\ calls[c].issued[t] = 1
                /\ calls[c].task[t] = "done"
                /\ Latest(c) =>
                      /\ context[t].isset
                      /\ DOMAIN context_data(t) = ItemKeys(calls[c].res[t])
                      /\ \A k \in DOMAIN context_data(t) : context_data(t)[k] = Item(k)
                /\ (Latest(c) /\ calls[c].mut0 = mutations) =>
                      DOMAIN context_data(t) =
                          store[t] \cap Selects(sent_query(CallQuery(c, t), t))

\* Two eager calls on A with a store write to C's table in between: the second call
\* replaced the slot of C by different content.
C6_Witness ==
    /\ ncalls = 2
    /\ calls[1].root = "A" /\ ~calls[1].lazy /\ calls[1].st = "done"
    /\ ~calls[2].lazy /\ calls[2].st = "done"
    /\ calls[2].issued["C"] = 1
    /\ calls[1].mut1 < calls[2].mut0
    /\ context_data("C") # calls[2].before["C"]

\* C7 as claimed: after a populate call on T that returned, T's own slot has been
\* set by a fetch.
C7_RootSlotPopulated ==
    \A c \in 1..MaxCalls :
        (Ended(c) /\ calls[c].st = "done") => context[calls[c].root].isset

\* C7 as amended: a populate call on T starts one task for every type of
\* closure(T) and for no other type; when it has returned, every type of the
\* closure was fetched or found cached, and when T is not in its own closure no
\* fetch was issued for T and T's slot is as the call found it.
C7_PopulateFetchesTheClosureOnly ==
    \A c \in 1..MaxCalls :
        c \in 1..ncalls =>
            LET closure == Closure(calls[c].root)
            IN  \A t \in Types :
                    /\ t \notin closure =>
                          calls[c].task[t] = "none" /\ calls[c].issued[t] = 0
                    /\ (t \in closure /\ calls[c].st = "done") =>
                          calls[c].task[t] \in {"done", "skipped"}
                    /\ (t = calls[c].root /\ t \notin closure /\ Latest(c)) =>
                          context_data(t) = calls[c].before[t]

\* A call on A returned having fetched B and C, and the slot of A was never set.
C7_Witness ==
    \E c \in 1..ncalls :
        /\ calls[c].root = "A" /\ calls[c].st = "done"
        /\ calls[c].task["B"] = "done" /\ calls[c].task["C"] = "done"
        /\ calls[c].task["A"] = "none"
        /\ ~context["A"].isset

\* C8: a populate call in which a fetch failed has failed as a whole (the
\* exception reached the caller), a call fails only for that reason, and no call
\* issues more than one fetch for a type.
C8_FailurePropagatesWithoutRetry ==
    \A c \in 1..MaxCalls :
        c \in 1..ncalls =>
            /\ (\E t \in Types : calls[c].task[t] = "failed") <=> calls[c].st = "failed"
            /\ \A t \in Types : calls[c].issued[t] <= 1

\* The fetch of C failed in a call on A, which failed; its one fetch of C was
\* not repeated.
C8_Witness ==
    \E c \in 1..ncalls :
        /\ calls[c].root = "A"
        /\ calls[c].task["C"] = "failed"
        /\ calls[c].st = "failed"
        /\ calls[c].issued["C"] = 1

C14_UnpopulatedSlotSignalsFailure ==
    (lastLookup # NoLookup /\ ~context[lastLookup.model].isset) =>
        lastLookup.result # NoItem

\* The latest call that fetched type t (calls follow one another).
LastFetch(t) ==
    LET done == {c \in 1..ncalls : calls[c].task[t] = "done"}
    IN  CHOOSE c \in done : \A d \in done : d <= c

\* C15: a lookup is a pure read: the step that makes it issues no fetch and
\* changes no slot and no table of the store; when the slot of the type was
\* populated it returns the record under the key if the key was among the keys
\* fetched into the slot, and the absent result otherwise.
C15_LookupIsPureRead ==
    [][lastLookup' # NoLookup =>
          /\ UNCHANGED <<context, lastWriter, calls, ncalls, store, mutations>>
          /\ LET l == lastLookup'
             IN  context[l.model].isset =>
                    IF l.key \in ItemKeys(calls[LastFetch(l.model)].res[l.model])
                    THEN l.result = [found |-> TRUE, item |-> Item(l.key)]
                    ELSE l.result = NoItem]_vars

\* A key that B's FETCH_QUERY leaves out was looked up in the populated slot of B
\* and found absent.
C15_Witness ==
    /\ lastLookup.model = "B" /\ lastLookup.key = "k1"
    /\ context["B"].isset /\ context["B"].value # EmptyDict
    /\ lastLookup.result = NoItem

(***************************************************************************)
(* Queries of the fetches: claims                                          *)
(***************************************************************************)
\* The query the contract gives type t in call c: the override whenever t is
\* a key of queries, else the declared FETCH_QUERY, else no filter.
ContractQuery(c, t) ==
    IF calls[c].queries[t] # Absent THEN calls[c].queries[t] ELSE FETCH_QUERY[t]

\* C16: every fetch a populate call issues for a type is sent with the caller's
\* override when the type is in queries, whatever its value, otherwise with the
\* declared FETCH_QUERY, otherwise unfiltered (None and {} both filter nothing).
C16_OverrideAlwaysWins ==
    \A c \in 1..MaxCalls : \A t \in Types :
        (c \in 1..ncalls /\ calls[c].issued[t] > 0) =>
            Selects(calls[c].sent[t]) = Selects(ContractQuery(c, t))

(***************************************************************************)
(* Registry lookup by name: claims                                         *)
(***************************************************************************)
\* The name is one of the three forms under which class c is to be found.
NamesClass(name, c) ==
    \/ name = c
    \/ name = item_name(c)
    \/ name = item_name(c) \o <<"_", "k", "e", "y">>

\* C18: getmodel returns the registered class E for E's class name, for E's slug
\* and for the slug followed by _key, and returns None, raising nothing, for a
\* name that is none of these for any registered class.
C18_LookupByNameSlugOrKeyName ==
    gres # NoModel =>
        /\ \A c \in registered :
              NamesClass(gname, c) => gres = [st |-> "ok", model |-> Str(c)]
        /\ (\A c \in registered : ~NamesClass(gname, c)) =>
              gres = [st |-> "ok", model |-> Null]

(***************************************************************************)
(* Existence query: claims                                                 *)
(***************************************************************************)
\* The fields of the entity that EXIST_QUERY lists, blanks apart.
Listed == {k \in FieldNames :
              \E i \in 1..MaxQueryLen : \E j \in i..MaxQueryLen :
                  /\ j <= Len(EXIST_QUERY.s)
                  /\ SubSeq(EXIST_QUERY.s, i, j) = k
                  /\ (i > 1 => EXIST_QUERY.s[i - 1] = " ")
                  /\ (j < Len(EXIST_QUERY.s) => EXIST_QUERY.s[j + 1] = " ")}

\* C19: for an EXIST_QUERY that is one blank-separated list of fields, exist_query
\* returns one flat query whose fields are exactly the listed fields that have a
\* non-empty value in the serialized form, each with that value.
C19_ExistQueryOmitsEmptyFields ==
    (equery # NoQueryYet /\ Truthy(EXIST_QUERY)) =>
        /\ equery.st = "dict"
        /\ DOMAIN equery.query = {k \in Listed : Truthy(asjson_get(k))}
        /\ \A k \in DOMAIN equery.query : equery.query[k] = asjson_get(k)

(***************************************************************************)
(* Resolution of references: claims                                        *)
(***************************************************************************)
\* C20: resolving a TableKey with table t and identifier k, when the slot of the
\* type registered for t is populated, ends without error and leaves on the field
\* what is stored under k in that slot, and nothing from another slot.
C20_TableKeyResolvesInItsTable ==
    (/\ resolved # NoResolve
     /\ resolved.kind = "TableKey" /\ resolved.truthy
     /\ getmodel(resolved.table) # None
     /\ context[getmodel(resolved.table)].isset) =>
        /\ resolved.st = "ok"
        /\ resolved.instance = instance_from_context(getmodel(resolved.table), resolved.key)

(***************************************************************************)
(* Key parsing is total (keys.py, keybase.py)                              *)
(***************************************************************************)
\* What the address parser of the library makes of the raw value: both groups of
\* the pattern, or nothing.
ParsesAsComposite ==
    /\ Truthy(raw)
    /\ Truthy(table_key_pattern(raw.s).table)
    /\ Truthy(table_key_pattern(raw.s).key)

\* C21: building a Key or a TableKey from any input, null, empty or malformed,
\* never raises; a null or empty input leaves table and identifier unset; a
\* value that does not parse as a composite gives the empty address.
C21_KeyParsingIsTotal ==
    /\ kbkey.st # "AttributeError"
    /\ (kpc = "built" /\ ~Truthy(raw)) =>
           tkey.table = Null /\ tkey.key = Null /\ tkey.data = <<>>
    /\ (bkey.built /\ ~Truthy(raw)) => bkey.key = Null /\ bkey.data = <<>>
    /\ (kbkey.st = "built" /\ ~Truthy(raw)) =>
           kbkey.table = Null /\ kbkey.key = Null /\ kbkey.data = <<>>
    /\ (kpc = "built" /\ ~ParsesAsComposite) => tkey.data = <<>>
    /\ (kbkey.st = "built" /\ ~ParsesAsComposite) => kbkey.data = <<>>

(***************************************************************************)
(* Construction reads the cache only                                       *)
(***************************************************************************)
\* C22: the step in which an instance resolves its reference field issues no
\* fetch and changes no table and no slot; the field comes out resolved only with
\* the record its key has in the slot of the referred type, so a key the slot
\* does not hold leaves the field without a record.
C22_ResolutionReadsCacheOnly ==
    [][(resolved = NoResolve /\ resolved' # NoResolve) =>
          /\ UNCHANGED <<store, mutations, context, lastWriter, calls, ncalls>>
          /\ LET r == resolved'
                 m == getmodel(r.table)
             IN  r.instance.type = "model" =>
                    /\ m # None
                    /\ context[m].isset
                    /\ r.key \in DOMAIN context[m].value
                    /\ r.instance.data = [found |-> TRUE, item |-> context[m].value[r.key]]]_vars

\* The Key field of an instance refers to B/k1, which the store holds and the
\* populated slot of B does not: the field was left without an instance.
C22_Witness ==
    /\ resolved.st = "ok" /\ resolved.kind = "Key" /\ resolved.truthy
    /\ resolved.table = "B" /\ resolved.key = "k1"
    /\ "k1" \in store["B"]
    /\ context["B"].isset /\ context["B"].value # EmptyDict
    /\ "k1" \notin DOMAIN context["B"].value
    /\ resolved.instance.type = "None"

(***************************************************************************)
(* Structured join of the fetch tasks                                      *)
(***************************************************************************)
\* The tasks of a call that have not ended.
Unfinished(c) == {t \in Types : calls[c].task[t] \in {"scheduled", "fetching"}}

\* C23: a populate call that has returned has no unfinished task, and all its
\* tasks completed; a call that has raised has no unfinished task either, the
\* tasks that had not completed being cancelled; from then on nothing changes in
\* the call, and every write of a slot is the step of a task of a call that is
\* still running.
C23_NoTaskOutlivesItsCall ==
    [][/\ \A c \in 1..ncalls :
             /\ calls[c].st = "done" =>
                   \A t \in Types : calls[c].task[t] \in {"none", "done", "skipped"}
             /\ calls[c].st = "failed" =>
                   /\ Unfinished(c) = {}
                   /\ \A t \in Types : calls[c].task[t] \in
                                          {"none", "done", "skipped", "failed", "cancelled"}
             /\ calls[c].st \in {"done", "failed"} => calls'[c] = calls[c]
       /\ context' # context =>
             \E c \in 1..ncalls, t \in Types :
                 /\ calls[c].st = "running"
                 /\ calls[c].task[t] = "fetching" /\ calls'[c].task[t] = "done"
                 /\ \A u \in Types \ {t} : context'[u] = context[u]]_vars

\* In a call on A the fetch of B failed while that of C was in flight: C was
\* cancelled, the call raised, and the slot of C was not written.
C23_Witness ==
    \E c \in 1..ncalls :
        /\ calls[c].root = "A" /\ calls[c].st = "failed"
        /\ calls[c].task["B"] = "failed" /\ calls[c].task["C"] = "cancelled"
        /\ calls[c].issued["C"] = 1
        /\ ~context["C"].isset

(***************************************************************************)
(* One writer per slot                                                     *)
(***************************************************************************)
\* The slot of t holds the items, each under its key, and nothing else.
HoldsExactly(slot, items) ==
    /\ slot.isset
    /\ DOMAIN slot.value = ItemKeys(items)
    /\ \A i \in DOMAIN items : slot.value[items[i].key] = items[i]

\* C24: a populate call has at most one task per type; the step in which a task
\* ends its fetch leaves in the slot of its type exactly the items of that fetch,
\* each under its key; a slot changes in such a step only, and it is at any
\* moment unset or exactly the result of the fetch of one task that completed.
C24_SlotIsOneWholeFetch ==
    [][/\ \A c \in 1..ncalls :
             LET d == dependencies(calls[c].root)
             IN  d.st = "ok" =>
                    \A i, j \in DOMAIN d.result : d.result[i] = d.result[j] => i = j
       /\ \A c \in 1..ncalls, t \in Types :
             (calls[c].task[t] = "fetching" /\ calls'[c].task[t] = "done") =>
                 HoldsExactly(context'[t], calls'[c].res[t])
       /\ \A t \in Types :
             /\ context'[t] # context[t] =>
                   \E c \in 1..ncalls :
                       calls[c].task[t] = "fetching" /\ calls'[c].task[t] = "done"
             /\ context[t].isset =>
                   \E c \in 1..ncalls :
                       /\ calls[c].task[t] = "done"
                       /\ HoldsExactly(context[t], calls[c].res[t])]_vars

\* Two calls both fetched C, the second while the first was still running, with
\* a write to the table of C between the two fetches: the slot of C holds the
\* result of one of them.
C24_Witness ==
    /\ ncalls = 2
    /\ calls[1].task["C"] = "done" /\ calls[2].task["C"] = "done"
    /\ calls[1].st = "running"
    /\ calls[1].res["C"] # calls[2].res["C"]
    /\ \E c \in 1..2 : HoldsExactly(context["C"], calls[c].res["C"])

(***************************************************************************)
(* Indexing of a fetch result                                              *)
(***************************************************************************)
\* The item has a key that can address it.
UsableKey(item) == item.haskey /\ item.key # ""

\* C25: the dict built from a fetch result has exactly the usable keys of the
\* items fetched, each key holds an item fetched with that key, and an item
\* without a usable key is held under no key.
C25_SlotKeysAreUsableKeys ==
    indexed.st = "set" =>
        /\ DOMAIN indexed.slot =
              {fetched[i].key : i \in {j \in DOMAIN fetched : UsableKey(fetched[j])}}
        /\ \A k \in DOMAIN indexed.slot :
              /\ indexed.slot[k].key = k
              /\ \E i \in DOMAIN fetched : fetched[i] = indexed.slot[k]
        /\ \A k \in DOMAIN indexed.slot : UsableKey(indexed.slot[k])

(***************************************************************************)
(* Paging of fetch_all                                                     *)
(***************************************************************************)
\* C26: a fetch_all call ends, by returning or by raising; the first request
\* carries no marker and every further one the marker of the response before it;
\* a call that returns has requested every page once and returns the items of
\* all the pages, in the order of the pages.
C26_FetchAllReadsEveryPage ==
    /\ [](/\ \A i \in DOMAIN fa.requests :
                fa.requests[i] = IF i = 1 THEN NoMarker ELSE i - 1
          /\ fa.st = "returned" =>
                /\ Len(fa.requests) = Len(pages)
                /\ fa.data = Flatten(pages))
    /\ <>(fa.st \in {"returned", "raised"})

\* A call returned the items of three pages after three requests.
C26_Witness ==
    /\ fa.st = "returned"
    /\ Len(pages) = MaxPages
    /\ Len(fa.requests) = MaxPages
    /\ Len(fa.data) > Len(pages[1])

(***************************************************************************)
(* Merge of metadata fragments                                             *)
(***************************************************************************)
\* The fragments that were declared with a non-empty value for the attribute.
Setters(a) == {i \in DOMAIN fragments : fragments[i][a] \notin {Unset, ""}}

\* C27: every attribute of the merged metadata has the value of the last
\* fragment, in declaration order, that was declared with a non-empty value for
\* it, and its default when no fragment was; with no fragment at all every
\* attribute has its default.
C27_LastExplicitValueWins ==
    merged.st = "merged" =>
        \A a \in FieldsOf(mclass) :
            merged.data[a] =
                IF Setters(a) = {} THEN Default(a)
                ELSE fragments[CHOOSE i \in Setters(a) : \A j \in Setters(a) : j <= i][a]

(***************************************************************************)
(* Construction of an instance from cached records                         *)
(***************************************************************************)
\* C28: the construction of an instance from a record of the cache ends without
\* exhausting the stack, whatever records the cache holds.
C28_ConstructionTerminates ==
    built.st # NotYet => built.st # "RecursionError"

(***************************************************************************)
(* Refresh of the cache for one instance                                   *)
(***************************************************************************)
\* C29: update_instance_context on an instance ends without error having started
\* one fetch, with the query {'key': value}, for every dependency of the class
\* whose key name the data of the instance has, and none for the others, and
\* having then resolved the references of the instance again.
C29_RefreshesPresentDependencies ==
    uic.st # NotYet =>
        LET deps == dependencies(uic.cls).result
            present == {t \in Types : InSeq(t, deps) /\ udata[t] # Absent}
        IN  /\ uic.st = "ok"
            /\ uic.started = {[model |-> t, key |-> udata[t]] : t \in present}
            /\ uic.reresolved

(***************************************************************************)
(* save_new                                                                *)
(***************************************************************************)
\* C30: a save_new call issues a put only after its existence check returned no
\* record; when the check returned a record the call returns None without a put,
\* when the check raised the call raises without a put, and a step of the call
\* that issues no put leaves the store as it was.
C30_SaveNewPutsOnlyWhenAbsent ==
    [][/\ sv'.puts > 0 => (sv'.exist.st = "ok" /\ ~sv'.exist.found)
       /\ sv'.exist.found => (sv'.st = "returned" /\ sv'.ret = None /\ sv'.puts = 0)
       /\ sv'.exist.st = "ExistException" => (sv'.st = "raised" /\ sv'.puts = 0)
       /\ (sv' # sv /\ sv'.puts = sv.puts) => UNCHANGED store]_vars

\* The existence check of an entity of B found one record: save_new returned
\* None and issued no put.
C30_Witness ==
    /\ sv.model = "B" /\ sv.exist.st = "ok" /\ sv.exist.found
    /\ sv.st = "returned" /\ sv.ret = None /\ sv.puts = 0

=============================================================================
